---- MODULE Spec2Model ----
(***************************************************************************)
(* A model of the QP inverse-dynamics controller of                        *)
(* drake/examples/QPInverseDynamicsForHumanoids/qp_controller.cc.          *)
(*                                                                         *)
(* Matrices and vectors are modelled by their dimensions and by what was   *)
(* last stored in them; the numeric data of a cycle (mass matrix, bias     *)
(* term, Jacobians, the solver's solution) is an input of the cycle.       *)
(* One call of QPController::Control is one step of the model.             *)
(***************************************************************************)
EXTENDS Integers, Sequences, FiniteSets, TLC

\* ------------------------------------------------------------------ bounds
MaxContacts == 2
MaxPoints == 2
MaxBodyMotions == 1
\* basis directions of the friction cone at each contact point
BasisPerContactPoint == 2

\* ------------------------------------------------------- the robot model
\* rs.robot().number_of_velocities() and rs.robot().actuators.size()
NumVelocities == 7
NumActuators == 1
\* rows of the floating-base part of the equations of motion
DynamicsRows == 6
\* upper bound of every basis coefficient
BasisUpperBound == 1000

\* --------------------------------------------------------------- helpers
RECURSIVE SumSeq(_, _)
\* s[1] + ... + s[n]
SumSeq(s, n) == IF n = 0 THEN 0 ELSE SumSeq(s, n - 1) + s[n]

Min(a, b) == IF a < b THEN a ELSE b

\* ---------------------------------------------------------------- inputs
\* Bodies are named by their index in the RigidBodyTree.
Bodies == 1..MaxContacts

\* ContactInformation: the body, the number of contact points, the number of
\* basis directions per contact point.
ContactInformation ==
  [body : Bodies, num_contact_points : 1..MaxPoints,
   num_basis_per_contact_point : {BasisPerContactPoint}]

num_basis(support) ==
  support.num_contact_points * support.num_basis_per_contact_point

\* The contact lists of the inputs: at most MaxContacts contacts, of distinct
\* bodies, listed by increasing body index.
ContactLists ==
  UNION {{s \in [1..k -> ContactInformation] :
            \A i, j \in 1..k : i < j => s[i].body < s[j].body} : k \in 0..MaxContacts}

\* The tracked body motions of the inputs, each named by its body: the first
\* k bodies, k <= MaxBodyMotions.
BodyMotionLists == {[i \in 1..k |-> i] : k \in 0..MaxBodyMotions}

\* QPInput: the contacts, the tracked body motions (each named by its body)
\* and the dimension of the desired generalized acceleration.
QPInputs ==
  [contact_info : ContactLists,
   desired_body_accelerations : BodyMotionLists,
   vd_d_size : {NumVelocities, NumVelocities + 1}]

QPInput_is_valid(input, num_vd) == input.vd_d_size = num_vd

\* ----------------------------------------------------- MathematicalProgram
EmptyProgram ==
  [num_vars |-> 0, vars |-> <<>>, objs |-> <<>>,
   eqs |-> <<>>, ineqs |-> <<>>, costs |-> <<>>]

\* A decision variable block starts where the previous ones end.
AddContinuousVariables(p, n, name) ==
  [p EXCEPT !.vars = Append(@, [name |-> name, index |-> p.num_vars, size |-> n]),
            !.num_vars = @ + n]

GetVariable(p, name) ==
  LET hits == {i \in 1..Len(p.vars) : p.vars[i].name = name}
  IN IF hits = {} THEN [name |-> name, index |-> 0, size |-> 0]
     ELSE p.vars[CHOOSE i \in hits : \A j \in hits : i <= j]

\* A constraint or cost object: what it was declared with and what was last
\* stored in it. A is "zero", "identity", "uninit" or "data"; a bound is
\* <<"const", value>> or <<"data", 0>>.
NewTerm(desc, rows, cols, vars, A, lb, ub) ==
  [desc |-> desc, rows |-> rows, cols |-> cols, vars |-> vars,
   A |-> A, A_rows |-> rows, lb |-> lb, ub |-> ub]

\* The id of the object the next Add... call creates.
NextId(p) == Len(p.objs) + 1

AddLinearEqualityConstraint(p, desc, rows, cols, vars) ==
  [p EXCEPT !.objs = Append(@, NewTerm(desc, rows, cols, vars, "zero",
                                        <<"const", 0>>, <<"const", 0>>)),
            !.eqs = Append(@, NextId(p))]

AddLinearConstraint(p, desc, rows, cols, vars, A, lb, ub) ==
  [p EXCEPT !.objs = Append(@, NewTerm(desc, rows, cols, vars, A, lb, ub)),
            !.ineqs = Append(@, NextId(p))]

AddQuadraticCost(p, desc, rows, vars, A, b) ==
  [p EXCEPT !.objs = Append(@, NewTerm(desc, rows, rows, vars, A, b, b)),
            !.costs = Append(@, NextId(p))]

\* UpdateConstraint through a handle: the object takes the new coefficients.
\* A null handle or a handle to no object of the program changes nothing.
UpdateConstraint(p, id, new_rows) ==
  IF id \in 1..Len(p.objs)
  THEN [p EXCEPT !.objs[id].A = "data", !.objs[id].A_rows = new_rows,
                 !.objs[id].lb = <<"data", 0>>, !.objs[id].ub = <<"data", 0>>]
  ELSE p

\* ------------------------------------------------------------ QPController
\* The controller before its first cycle: no topology, an empty program,
\* null handles (0) and empty buffers.
NewController ==
  [num_contact_body_ |-> 0, num_vd_ |-> 0, num_basis_ |-> 0,
   num_point_force_ |-> 0, num_torque_ |-> 0, num_variable_ |-> 0,
   num_body_acceleration_ |-> 0,
   prog_ |-> EmptyProgram,
   eq_dynamics_ |-> 0, eq_contacts_ |-> <<>>,
   ineq_contact_wrench_ |-> 0, ineq_torque_limit_ |-> 0,
   cost_comdd_ |-> 0, cost_body_accelerations_ |-> <<>>,
   cost_vd_reg_ |-> 0, cost_basis_reg_ |-> 0,
   stacked_contact_jacobians_ |-> [rows |-> 0, cols |-> 0],
   basis_to_force_matrix_ |-> [rows |-> 0, cols |-> 0],
   stacked_contact_jacobians_dot_times_v_ |-> [rows |-> 0, cols |-> 1],
   torque_linear_ |-> [rows |-> 0, cols |-> 0],
   dynamics_linear_ |-> [rows |-> 0, cols |-> 0],
   body_J_ |-> 0, body_Jdv_ |-> 0]

\* The dimensions ResizeQP derives from the robot and the descriptors.
Dimensions(all_supports, all_body_accelerations) ==
  LET n == Len(all_supports)
      points == [i \in 1..n |-> all_supports[i].num_contact_points]
      basis == [i \in 1..n |-> num_basis(all_supports[i])]
  IN [num_contact_body |-> n,
      num_vd |-> NumVelocities,
      num_basis |-> SumSeq(basis, n),
      num_point_force |-> SumSeq(points, n),
      num_torque |-> NumActuators,
      num_variable |-> NumVelocities + SumSeq(basis, n),
      num_body_acceleration |-> Len(all_body_accelerations)]

\* SameTopology, had only the sizes of the decision vector been compared.
SameTopology_VariableCountOnly(c, d) ==
  /\ d.num_vd = c.num_vd_
  /\ d.num_variable = c.num_variable_

\* The early return of ResizeQP: every derived dimension equals the stored one.
SameTopology(c, d) ==
  /\ d.num_contact_body = c.num_contact_body_
  /\ d.num_vd = c.num_vd_
  /\ d.num_basis = c.num_basis_
  /\ d.num_point_force = c.num_point_force_
  /\ d.num_torque = c.num_torque_
  /\ d.num_variable = c.num_variable_
  /\ d.num_body_acceleration = c.num_body_acceleration_

RECURSIVE AddContactConstraints(_, _, _, _)
\* One equality per contact body, 3 rows per contact point, on vd.
AddContactConstraints(p, all_supports, num_vd, i) ==
  IF i > Len(all_supports) THEN p
  ELSE AddContactConstraints(
         AddLinearEqualityConstraint(
           p, <<all_supports[i].body, "contact eq">>,
           3 * all_supports[i].num_contact_points, num_vd, <<"vd">>),
         all_supports, num_vd, i + 1)

RECURSIVE AddBodyCosts(_, _, _, _)
\* One quadratic cost per tracked body motion, on vd.
AddBodyCosts(p, all_body_accelerations, num_vd, i) ==
  IF i > Len(all_body_accelerations) THEN p
  ELSE AddBodyCosts(
         AddQuadraticCost(p, <<all_body_accelerations[i], "cost">>,
                          num_vd, <<"vd">>, "uninit", <<"data", 0>>),
         all_body_accelerations, num_vd, i + 1)

\* DeclareVariables with the two declarations in the other order.
DeclareVariables_BasisFirst(d) ==
  AddContinuousVariables(
    AddContinuousVariables(EmptyProgram, d.num_basis, "basis"), d.num_vd, "vd")

\* The decision variables of a new program: vd, then basis.
DeclareVariables(d) ==
  AddContinuousVariables(
    AddContinuousVariables(EmptyProgram, d.num_vd, "vd"), d.num_basis, "basis")

\* The equality constraints: the dynamics, then one per contact body.
DeclareEqualities(p, d, all_supports) ==
  LET p1 == AddLinearEqualityConstraint(p, <<0, "dynamics eq">>, DynamicsRows,
                                        d.num_variable, <<"vd", "basis">>)
  IN [prog |-> AddContactConstraints(p1, all_supports, d.num_vd, 1),
      eq_dynamics |-> NextId(p),
      eq_contacts |-> [i \in 1..d.num_contact_body |-> NextId(p1) + (i - 1)]]

\* DeclareInequalities with the torque limits declared first.
DeclareInequalities_TorqueFirst(p, d) ==
  LET p1 == AddLinearConstraint(p, <<0, "torque limit ineq">>, d.num_torque,
                                d.num_variable, <<"vd", "basis">>, "zero",
                                <<"const", 0>>, <<"const", 0>>)
  IN [prog |-> AddLinearConstraint(p1, <<0, "contact force basis ineq">>,
                                   d.num_basis, d.num_basis, <<"basis">>,
                                   "identity", <<"const", 0>>,
                                   <<"const", BasisUpperBound>>),
      ineq_contact_wrench |-> NextId(p1),
      ineq_torque_limit |-> NextId(p)]

\* The inequality constraints: the bounds of the basis coefficients, which
\* stay as declared, then the torque limits.
DeclareInequalities(p, d) ==
  LET p1 == AddLinearConstraint(p, <<0, "contact force basis ineq">>,
                                d.num_basis, d.num_basis, <<"basis">>, "identity",
                                <<"const", 0>>, <<"const", BasisUpperBound>>)
  IN [prog |-> AddLinearConstraint(p1, <<0, "torque limit ineq">>, d.num_torque,
                                   d.num_variable, <<"vd", "basis">>, "zero",
                                   <<"const", 0>>, <<"const", 0>>),
      ineq_contact_wrench |-> NextId(p),
      ineq_torque_limit |-> NextId(p1)]

\* The costs: CoM tracking, one per tracked body motion, then the
\* regularization of vd and of the basis coefficients.
DeclareCosts(p, d, all_body_accelerations) ==
  LET p1 == AddQuadraticCost(p, <<0, "com cost">>, d.num_vd, <<"vd">>,
                             "uninit", <<"data", 0>>)
      p2 == AddBodyCosts(p1, all_body_accelerations, d.num_vd, 1)
      p3 == AddQuadraticCost(p2, <<0, "vd reg cost">>, d.num_vd, <<"vd">>,
                             "uninit", <<"data", 0>>)
  IN [prog |-> AddQuadraticCost(p3, <<0, "basis reg cost">>, d.num_basis,
                                <<"basis">>, "identity", <<"const", 0>>),
      cost_comdd |-> NextId(p),
      cost_body_accelerations |->
        [i \in 1..d.num_body_acceleration |-> NextId(p1) + (i - 1)],
      cost_vd_reg |-> NextId(p2),
      cost_basis_reg |-> NextId(p3)]

\* The rebuild of ResizeQP: store the dimensions, start a new program, declare
\* the variables, resize the buffers, declare every constraint and cost and
\* keep the handles the declarations return.
Rebuild(c, d, all_supports, all_body_accelerations) ==
  LET eqs == DeclareEqualities(DeclareVariables(d), d, all_supports)
      ineqs == DeclareInequalities(eqs.prog, d)
      costs == DeclareCosts(ineqs.prog, d, all_body_accelerations)
  IN [num_contact_body_ |-> d.num_contact_body, num_vd_ |-> d.num_vd,
      num_basis_ |-> d.num_basis, num_point_force_ |-> d.num_point_force,
      num_torque_ |-> d.num_torque, num_variable_ |-> d.num_variable,
      num_body_acceleration_ |-> d.num_body_acceleration,
      prog_ |-> costs.prog,
      eq_dynamics_ |-> eqs.eq_dynamics, eq_contacts_ |-> eqs.eq_contacts,
      ineq_contact_wrench_ |-> ineqs.ineq_contact_wrench,
      ineq_torque_limit_ |-> ineqs.ineq_torque_limit,
      cost_comdd_ |-> costs.cost_comdd,
      cost_body_accelerations_ |-> costs.cost_body_accelerations,
      cost_vd_reg_ |-> costs.cost_vd_reg,
      cost_basis_reg_ |-> costs.cost_basis_reg,
      stacked_contact_jacobians_ |->
        [rows |-> 3 * d.num_point_force, cols |-> d.num_vd],
      basis_to_force_matrix_ |->
        [rows |-> 3 * d.num_point_force, cols |-> d.num_basis],
      stacked_contact_jacobians_dot_times_v_ |->
        [rows |-> 3 * d.num_point_force, cols |-> 1],
      torque_linear_ |-> [rows |-> d.num_torque, cols |-> d.num_variable],
      dynamics_linear_ |-> [rows |-> DynamicsRows, cols |-> d.num_variable],
      body_J_ |-> d.num_body_acceleration,
      body_Jdv_ |-> d.num_body_acceleration]

\* ResizeQP without its early return.
ResizeQP_AlwaysRebuilds(c, all_supports, all_body_accelerations) ==
  Rebuild(c, Dimensions(all_supports, all_body_accelerations),
          all_supports, all_body_accelerations)

ResizeQP(c, all_supports, all_body_accelerations) ==
  LET d == Dimensions(all_supports, all_body_accelerations)
  IN IF SameTopology(c, d) THEN c
     ELSE Rebuild(c, d, all_supports, all_body_accelerations)

\* ------------------------------------------------- the per-cycle formulator
\* Row and column offset of contact body b (1-based) in the stacked buffers.
RowOffset(input, b) ==
  3 * SumSeq([i \in 1..Len(input.contact_info) |->
                input.contact_info[i].num_contact_points], b - 1)

ColOffset(input, b) ==
  SumSeq([i \in 1..Len(input.contact_info) |-> num_basis(input.contact_info[i])],
         b - 1)

force_dim(input, b) == 3 * input.contact_info[b].num_contact_points

Block(buf, row, col, nrows, ncols) ==
  [buf |-> buf, row |-> row, col |-> col, nrows |-> nrows, ncols |-> ncols]

\* The block writes of the stacking loop, for the contact bodies 1..n.
StackingWrites(c, input, n) ==
  UNION {{Block("basis_to_force_matrix_", RowOffset(input, b), ColOffset(input, b),
                force_dim(input, b), num_basis(input.contact_info[b])),
          Block("stacked_contact_jacobians_", RowOffset(input, b), 0,
                force_dim(input, b), c.num_vd_),
          Block("stacked_contact_jacobians_dot_times_v_", RowOffset(input, b), 0,
                force_dim(input, b), 1)} : b \in 1..n}

\* The block writes into torque_linear_ and dynamics_linear_.
LinearMapWrites(c, vd_start, basis_start) ==
  {Block("torque_linear_", 0, vd_start, c.num_torque_, c.num_vd_),
   Block("torque_linear_", 0, basis_start, c.num_torque_, c.num_basis_),
   Block("dynamics_linear_", 0, vd_start, DynamicsRows, c.num_vd_),
   Block("dynamics_linear_", 0, basis_start, DynamicsRows, c.num_basis_)}

RECURSIVE UpdateContactConstraints(_, _, _, _, _)
\* eq_contacts_[i] takes the rows of contact body i of the input, i = 1..n.
UpdateContactConstraints(p, eq_contacts, input, n, i) ==
  IF i > n THEN p
  ELSE UpdateContactConstraints(
         UpdateConstraint(p, eq_contacts[i], force_dim(input, i)),
         eq_contacts, input, n, i + 1)

RECURSIVE UpdateBodyCosts(_, _, _, _, _)
\* cost_body_accelerations_[i] takes the cost of tracked body motion i = 1..n.
UpdateBodyCosts(p, cost_body_accelerations, num_vd, n, i) ==
  IF i > n THEN p
  ELSE UpdateBodyCosts(
         UpdateConstraint(p, cost_body_accelerations[i], num_vd),
         cost_body_accelerations, num_vd, n, i + 1)

\* The shape of the descriptors of an input: per contact its points and basis
\* dimension, then the number of tracked body motions.
Shape(input) ==
  <<[i \in 1..Len(input.contact_info) |->
       <<input.contact_info[i].num_contact_points, num_basis(input.contact_info[i])>>],
    Len(input.desired_body_accelerations)>>

\* What one run of the formulator did: the indices it used and the final
\* offsets its assertions compare.
NoTrace ==
  [ran |-> FALSE, resized |-> FALSE, shape |-> <<<<>>, 0>>, contacts_stacked |-> 0, contacts_given |-> 0,
   eq_handles |-> 0, bodies_given |-> 0, body_handles |-> 0, body_slots |-> 0,
   rowIdx |-> 0, colIdx |-> 0, rowIdx_eq |-> 0, contact_rows |-> <<>>,
   contact_bodies |-> <<>>, tracked_bodies |-> <<>>,
   vd_start |-> 0, basis_start |-> 0, writes |-> {}]

\* Formulate, had it also stored new data in the bounds of the basis
\* coefficients.
Formulate_WritesBasisBounds(c, input, resized) ==
  LET vd == GetVariable(c.prog_, "vd")
      basis == GetVariable(c.prog_, "basis")
      given == Len(input.contact_info)
      n == Min(c.num_contact_body_, given)
      ne == Min(n, Len(c.eq_contacts_))
      bodies == Len(input.desired_body_accelerations)
      nb == Min(bodies, Min(Len(c.cost_body_accelerations_), c.body_J_))
      p1 == UpdateConstraint(c.prog_, c.eq_dynamics_, c.dynamics_linear_.rows)
      p2 == UpdateContactConstraints(p1, c.eq_contacts_, input, ne, 1)
      p3 == UpdateConstraint(UpdateConstraint(p2, c.ineq_contact_wrench_, c.num_basis_),
                             c.ineq_torque_limit_, NumActuators)
      p4 == UpdateConstraint(p3, c.cost_comdd_, c.num_vd_)
      p5 == UpdateBodyCosts(p4, c.cost_body_accelerations_, c.num_vd_, nb, 1)
      p6 == UpdateConstraint(p5, c.cost_vd_reg_, c.num_vd_)
      p7 == UpdateConstraint(p6, c.cost_basis_reg_, c.num_basis_)
  IN [ctrl |-> [c EXCEPT !.prog_ = p7],
      trace |->
        [ran |-> TRUE, resized |-> resized, shape |-> Shape(input),
         contacts_stacked |-> c.num_contact_body_, contacts_given |-> given,
         eq_handles |-> Len(c.eq_contacts_),
         bodies_given |-> bodies,
         body_handles |-> Len(c.cost_body_accelerations_),
         body_slots |-> Min(c.body_J_, c.body_Jdv_),
         rowIdx |-> RowOffset(input, n + 1), colIdx |-> ColOffset(input, n + 1),
         rowIdx_eq |-> RowOffset(input, ne + 1),
         contact_rows |-> [i \in 1..ne |-> force_dim(input, i)],
         contact_bodies |-> [i \in 1..given |-> input.contact_info[i].body],
         tracked_bodies |-> input.desired_body_accelerations,
         vd_start |-> vd.index, basis_start |-> basis.index,
         writes |-> StackingWrites(c, input, n)
                      \cup LinearMapWrites(c, vd.index, basis.index)]]

\* Fills every declared constraint and cost from the input, on the controller
\* ResizeQP has left (resized: it changed the controller). A loop that would
\* index past the end of a vector stops at its end; the trace keeps the counts
\* so that such an access shows.
Formulate(c, input, resized) ==
  LET vd == GetVariable(c.prog_, "vd")
      basis == GetVariable(c.prog_, "basis")
      given == Len(input.contact_info)
      n == Min(c.num_contact_body_, given)
      ne == Min(n, Len(c.eq_contacts_))
      bodies == Len(input.desired_body_accelerations)
      nb == Min(bodies, Min(Len(c.cost_body_accelerations_), c.body_J_))
      p1 == UpdateConstraint(c.prog_, c.eq_dynamics_, c.dynamics_linear_.rows)
      p2 == UpdateContactConstraints(p1, c.eq_contacts_, input, ne, 1)
      p3 == UpdateConstraint(p2, c.ineq_torque_limit_, NumActuators)
      p4 == UpdateConstraint(p3, c.cost_comdd_, c.num_vd_)
      p5 == UpdateBodyCosts(p4, c.cost_body_accelerations_, c.num_vd_, nb, 1)
      p6 == UpdateConstraint(p5, c.cost_vd_reg_, c.num_vd_)
      p7 == UpdateConstraint(p6, c.cost_basis_reg_, c.num_basis_)
  IN [ctrl |-> [c EXCEPT !.prog_ = p7],
      trace |->
        [ran |-> TRUE, resized |-> resized, shape |-> Shape(input),
         contacts_stacked |-> c.num_contact_body_, contacts_given |-> given,
         eq_handles |-> Len(c.eq_contacts_),
         bodies_given |-> bodies,
         body_handles |-> Len(c.cost_body_accelerations_),
         body_slots |-> Min(c.body_J_, c.body_Jdv_),
         rowIdx |-> RowOffset(input, n + 1), colIdx |-> ColOffset(input, n + 1),
         rowIdx_eq |-> RowOffset(input, ne + 1),
         contact_rows |-> [i \in 1..ne |-> force_dim(input, i)],
         contact_bodies |-> [i \in 1..given |-> input.contact_info[i].body],
         tracked_bodies |-> input.desired_body_accelerations,
         vd_start |-> vd.index, basis_start |-> basis.index,
         writes |-> StackingWrites(c, input, n)
                      \cup LinearMapWrites(c, vd.index, basis.index)]]

\* The three DRAKE_ASSERTs of the formulator on the running offsets.
OffsetAssertionsHold(c, trace) ==
  /\ trace.rowIdx = c.num_point_force_ * 3
  /\ trace.colIdx = c.num_basis_
  /\ trace.rowIdx_eq = c.num_point_force_ * 3

\* ------------------------------------------------------ the solver backend
\* What the environment of one cycle supplies: whether the solver is
\* available, whether it finds a solution, which of the declared constraints
\* (its position among the equalities followed by the inequalities; 0: none)
\* the returned vector violates, whether the wrenches computed from it
\* balance, and whether the values of the assembled output are well formed.
NoSolution == [violated |-> 0, wrench_balanced |-> TRUE]

\* Whether a returned vector satisfies every constraint of the program.
Feasible(p, sol) == sol.violated \notin 1..(Len(p.eqs) + Len(p.ineqs))

CycleEnv(available, found, violated, wrench_balanced, intact) ==
  [available |-> available, found |-> found,
   solution |-> [violated |-> violated, wrench_balanced |-> wrench_balanced],
   intact |-> intact]

\* ------------------------------------------------------------------ output
\* The QPOutput of a caller that has not yet had a successful cycle.
EmptyOutput ==
  [costs |-> <<>>, resolved_contacts |-> <<>>, vd |-> 0, comdd |-> 0,
   body_accelerations |-> <<>>, joint_torque |-> 0]

\* The value of every quadratic cost of the program, labelled.
InspectCosts(c, output) ==
  [output EXCEPT !.costs =
     [k \in 1..Len(c.prog_.costs) |-> c.prog_.objs[c.prog_.costs[k]].desc]]

\* The loop over the equality constraints of the program.
EqualitiesHold(c, sol) ==
  \A k \in 1..Len(c.prog_.eqs) : k # sol.violated

\* InequalitiesHold, had only the first inequality been looked at.
InequalitiesHold_FirstOnly(c, sol) ==
  \A k \in 1..Min(1, Len(c.prog_.ineqs)) : Len(c.prog_.eqs) + k # sol.violated

\* The loop over the inequality constraints of the program.
InequalitiesHold(c, sol) ==
  \A k \in 1..Len(c.prog_.ineqs) : Len(c.prog_.eqs) + k # sol.violated

\* ParseResult, had the two vectors of the output not been cleared before the
\* push_back loops.
ParseResult_WithoutClear(c, output, input) ==
  [output EXCEPT
     !.resolved_contacts = @ \o
       [i \in 1..Len(input.contact_info) |->
          [body |-> input.contact_info[i].body,
           basis_index |-> ColOffset(input, i),
           num_basis |-> num_basis(input.contact_info[i]),
           point_force_index |-> RowOffset(input, i),
           num_point_forces |-> input.contact_info[i].num_contact_points]],
     !.vd = GetVariable(c.prog_, "vd").size,
     !.comdd = 3,
     !.body_accelerations = @ \o input.desired_body_accelerations,
     !.joint_torque = c.torque_linear_.rows]

\* One resolved contact per contact of the input, with its slice of the basis
\* block and of the point forces; then vd, comdd, one body acceleration per
\* tracked body and the joint torques.
ParseResult(c, output, input) ==
  [output EXCEPT
     !.resolved_contacts =
       [i \in 1..Len(input.contact_info) |->
          [body |-> input.contact_info[i].body,
           basis_index |-> ColOffset(input, i),
           num_basis |-> num_basis(input.contact_info[i]),
           point_force_index |-> RowOffset(input, i),
           num_point_forces |-> input.contact_info[i].num_contact_points]],
     !.vd = GetVariable(c.prog_, "vd").size,
     !.comdd = 3,
     !.body_accelerations = input.desired_body_accelerations,
     !.joint_torque = c.torque_linear_.rows]

QPOutput_is_valid(output, num_vd, num_joints, intact) ==
  /\ output.vd = num_vd
  /\ output.joint_torque = num_joints
  /\ intact

\* ----------------------------------------------------------------- Control
\* What a call leaves behind: the controller, the caller's output, whether
\* and what it returned, which exit it took, and what it did on the way.
Result(c, output, returned, ret, outcome, solver_invoked, trace, sol) ==
  [ctrl |-> c, output |-> output, returned |-> returned, ret |-> ret,
   outcome |-> outcome, solver_invoked |-> solver_invoked, trace |-> trace,
   solution |-> [feasible |-> Feasible(c.prog_, sol),
                 wrench_balanced |-> sol.wrench_balanced]]

\* InputRejected, had ResizeQP been called before the validity check.
InputRejected_AfterResize(c, output, input) ==
  Result(ResizeQP(c, input.contact_info, input.desired_body_accelerations),
         output, TRUE, -1, "input_invalid", FALSE, NoTrace, NoSolution)

\* "input is invalid": the first statement of Control.
InputRejected(c, output, input) ==
  Result(c, output, TRUE, -1, "input_invalid", FALSE, NoTrace, NoSolution)

\* SolverUnavailable, had the cost list of the output been resized and filled
\* before the availability check.
SolverUnavailable_AfterCosts(c, output, trace) ==
  Result(c, InspectCosts(c, output), TRUE, -1, "solver_unavailable", FALSE,
         trace, NoSolution)

\* "Solver not available."
SolverUnavailable(c, output, trace) ==
  Result(c, output, TRUE, -1, "solver_unavailable", FALSE, trace, NoSolution)

\* SolutionNotFound, had its return statement been `return 0`.
SolutionNotFound_ReturnsZero(c, output, trace) ==
  Result(c, output, TRUE, 0, "no_solution", TRUE, trace, NoSolution)

\* "solution not found"
SolutionNotFound(c, output, trace) ==
  Result(c, output, TRUE, -1, "no_solution", TRUE, trace, NoSolution)

\* OutputInvalid, had the failed check only been logged.
OutputInvalid_OnlyLogged(c, output, trace, sol) ==
  Result(c, output, TRUE, 0, "output_invalid", TRUE, trace, sol)

\* "output is invalid"
OutputInvalid(c, output, trace, sol) ==
  Result(c, output, TRUE, -1, "output_invalid", TRUE, trace, sol)

\* The end of Control.
Success(c, output, trace, sol) ==
  Result(c, output, TRUE, 0, "success", TRUE, trace, sol)

\* An armed DRAKE_ASSERT failed: the process aborts, the call never returns.
Abort(c, output, solver_invoked, trace, sol) ==
  Result(c, output, FALSE, 0, "abort", solver_invoked, trace, sol)

\* One call of Control on controller c with the caller's output, in a build
\* where DRAKE_ASSERT is armed or not.
Control(c, output, input, env, armed) ==
  IF ~QPInput_is_valid(input, NumVelocities)
  THEN InputRejected(c, output, input)
  ELSE
    LET resized == ResizeQP(c, input.contact_info,
                            input.desired_body_accelerations)
        f == Formulate(resized, input, resized # c)
        c1 == f.ctrl
        sol == env.solution
        o1 == InspectCosts(c1, output)
        o2 == ParseResult(c1, o1, input)
    IN IF armed /\ ~OffsetAssertionsHold(c1, f.trace)
       THEN Abort(c1, output, FALSE, f.trace, NoSolution)
       ELSE IF ~env.available
       THEN SolverUnavailable(c1, output, f.trace)
       ELSE IF ~env.found
       THEN SolutionNotFound(c1, output, f.trace)
       ELSE IF armed /\ ~(EqualitiesHold(c1, sol) /\ InequalitiesHold(c1, sol))
       THEN Abort(c1, o1, TRUE, f.trace, sol)
       ELSE IF armed /\ ~sol.wrench_balanced
       THEN Abort(c1, o2, TRUE, f.trace, sol)
       ELSE IF ~QPOutput_is_valid(o2, NumVelocities, NumActuators, env.intact)
       THEN OutputInvalid(c1, o2, f.trace, sol)
       ELSE Success(c1, o2, f.trace, sol)

\* ------------------------------------------------------------------- state
VARIABLES
  ctrl,            \* the QPController
  output,          \* the caller's QPOutput, passed to every cycle
  ret,             \* what the last call that returned has returned
  outcome,         \* which exit the last call took
  solver_invoked,  \* whether the last call ran solver_.Solve
  trace,           \* what the formulator did in the last call
  solution,        \* what the solver's solution of the last call satisfies
  asserts_armed    \* whether this build arms DRAKE_ASSERT

vars ==
  <<ctrl, output, ret, outcome, solver_invoked, trace, solution,
    asserts_armed>>

Init ==
  /\ ctrl = NewController
  /\ output = EmptyOutput
  /\ ret = 0
  /\ outcome = "none"
  /\ solver_invoked = FALSE
  /\ trace = NoTrace
  /\ solution = [feasible |-> TRUE, wrench_balanced |-> TRUE]
  /\ asserts_armed \in BOOLEAN

\* The state after the call: an aborted process takes no further step.
Cycle(input, env) ==
  /\ outcome # "abort"
  /\ \E r \in {Control(ctrl, output, input, env, asserts_armed)} :
     /\ ctrl' = r.ctrl
     /\ output' = r.output
     /\ ret' = IF r.returned THEN r.ret ELSE ret
     /\ outcome' = r.outcome
     /\ solver_invoked' = r.solver_invoked
     /\ trace' = r.trace
     /\ solution' = r.solution
     /\ UNCHANGED asserts_armed

\* The positions a violated constraint can have in a program.
ConstraintPositions == 1..(MaxContacts + 3)

ValidInputs == {input \in QPInputs : QPInput_is_valid(input, NumVelocities)}

\* A cycle whose input fails validation.
CycleRejected ==
  \E input \in QPInputs \ ValidInputs :
    Cycle(input, CycleEnv(TRUE, TRUE, 0, TRUE, TRUE))

\* A cycle whose solver is unavailable or finds no solution.
CycleSolverFails ==
  \E input \in ValidInputs, available \in BOOLEAN :
    Cycle(input, CycleEnv(available, FALSE, 0, TRUE, TRUE))

\* A cycle whose solver returns a solution satisfying every constraint.
CycleSolved ==
  \E input \in ValidInputs, intact \in BOOLEAN :
    Cycle(input, CycleEnv(TRUE, TRUE, 0, TRUE, intact))

\* A cycle whose solver returns a vector that violates one constraint or whose
\* wrenches do not balance.
CycleSolvedBadly ==
  \E input \in ValidInputs :
    \/ \E id \in ConstraintPositions :
         Cycle(input, CycleEnv(TRUE, TRUE, id, TRUE, TRUE))
    \/ Cycle(input, CycleEnv(TRUE, TRUE, 0, FALSE, TRUE))

Next == CycleRejected \/ CycleSolverFails \/ CycleSolved \/ CycleSolvedBadly

Spec == Init /\ [][Next]_vars

\* ================================================================== claims
FiveOutcomes ==
  {"success", "input_invalid", "solver_unavailable", "no_solution",
   "output_invalid"}

\* C1, as stated: two consecutive cycles that end in different outcomes among
\* the five never return the same code.
C1_CodesDistinguishOutcomes ==
  [][(outcome \in FiveOutcomes /\ outcome' \in FiveOutcomes /\ outcome' # outcome)
       => ret' # ret]_vars

\* C1, amended: the returned code is 0 exactly when the cycle succeeds and -1
\* for each of the four failures.
C1_CodeIsSuccessOrFailure ==
  outcome \in FiveOutcomes =>
    /\ (outcome = "success" => ret = 0)
    /\ (outcome # "success" => ret = -1)

\* C1: a failed cycle that followed a cycle which wrote the output.
C1_Witness ==
  outcome = "no_solution" /\ ret = -1 /\ output # EmptyOutput

\* C2: from the current state, Control on any input that fails validation
\* returns -1 by the input-invalid exit, without invoking the solver and
\* leaving the controller and the caller's output as they were.
C2_InvalidInputChangesNothing ==
  \A input \in QPInputs \ ValidInputs, available \in BOOLEAN :
    LET r == Control(ctrl, output, input,
                     CycleEnv(available, TRUE, 0, TRUE, TRUE), asserts_armed)
    IN /\ r.outcome = "input_invalid"
       /\ r.returned /\ r.ret = -1
       /\ ~r.solver_invoked
       /\ r.ctrl = ctrl
       /\ r.output = output

\* C2: an input was rejected by a controller that holds a built problem, with
\* an output written by an earlier cycle.
C2_Witness ==
  /\ outcome = "input_invalid"
  /\ ctrl.num_contact_body_ = MaxContacts
  /\ output.vd = NumVelocities

\* C3: from the current state, Control on any valid input with the solver
\* unavailable returns -1 by the solver-unavailable exit and leaves every
\* field of the caller's output as it was.
C3_UnavailableLeavesOutput ==
  \A input \in ValidInputs, found \in BOOLEAN :
    LET r == Control(ctrl, output, input,
                     CycleEnv(FALSE, found, 0, TRUE, TRUE), asserts_armed)
    IN /\ r.outcome = "solver_unavailable"
       /\ r.returned /\ r.ret = -1
       /\ r.output = output

\* C3: the solver was unavailable in a cycle whose problem differs from the
\* one of the cycle that wrote the output.
C3_Witness ==
  /\ outcome = "solver_unavailable"
  /\ output.vd = NumVelocities
  /\ Len(output.resolved_contacts) # ctrl.num_contact_body_

\* Post-solve validation failed in the last call: the returned vector violates
\* a constraint, the wrenches do not balance, or the output is invalid.
ValidationFailed(o, sol) ==
  \/ o = "output_invalid"
  \/ o \in {"success", "abort"} /\ ~(sol.feasible /\ sol.wrench_balanced)

\* C4, as stated: a cycle whose post-solve validation fails reports failure
\* and leaves the caller's output as it was.
C4_FailureLeavesOutput ==
  [][(solver_invoked' /\ ValidationFailed(outcome', solution'))
       => (outcome' # "success" /\ output' = output)]_vars

\* C4, amended: a failed validity check of the output returns -1; with
\* DRAKE_ASSERT armed a violated constraint or unbalanced wrench never ends in
\* success; the failures before the result is inspected return -1 and leave
\* the caller's output as it was.
C4_FailureReported ==
  [][/\ (outcome' = "output_invalid" => ret' = -1)
     /\ (asserts_armed /\ solver_invoked' /\ ValidationFailed(outcome', solution')
           => outcome' \in {"abort", "output_invalid"})
     /\ (outcome' \in {"input_invalid", "solver_unavailable", "no_solution"}
           => ret' = -1 /\ output' = output)]_vars

\* C4: the validity check of the output failed after the output was written.
C4_Witness ==
  /\ outcome = "output_invalid" /\ ret = -1
  /\ output.vd = NumVelocities /\ Len(output.costs) > 0

\* C5: when the last cycle ran the formulator, ResizeQP on any input whose
\* descriptors have the shapes of that cycle's input leaves the controller
\* (program, handles, buffers, counts) exactly as it is.
C5_SameShapeNoRebuild ==
  trace.ran =>
    \A input \in ValidInputs :
      Shape(input) = trace.shape =>
        ResizeQP(ctrl, input.contact_info, input.desired_body_accelerations) = ctrl

\* C5: a cycle with two contacts and a tracked body reused the problem.
C5_Witness ==
  /\ trace.ran /\ ~trace.resized
  /\ ctrl.num_contact_body_ = MaxContacts
  /\ ctrl.num_body_acceleration_ = MaxBodyMotions

Built == ctrl # NewController

\* The text of the description of the object a handle refers to.
Kind(id) ==
  IF id \in 1..Len(ctrl.prog_.objs) THEN ctrl.prog_.objs[id].desc[2] ELSE "none"

\* C7: once built, the program lists its terms in the order dynamics equality,
\* contact equalities, basis bounds, torque limits, CoM cost, body costs, vd
\* regularization, basis regularization, that is also the order of their
\* declaration, and every stored handle is the term at its position.
C7_DeclarationOrder ==
  Built =>
    LET p == ctrl.prog_ IN
    /\ Len(ctrl.eq_contacts_) = ctrl.num_contact_body_
    /\ Len(ctrl.cost_body_accelerations_) = ctrl.num_body_acceleration_
    /\ p.eqs = <<ctrl.eq_dynamics_>> \o ctrl.eq_contacts_
    /\ p.ineqs = <<ctrl.ineq_contact_wrench_, ctrl.ineq_torque_limit_>>
    /\ p.costs = <<ctrl.cost_comdd_>> \o ctrl.cost_body_accelerations_
                   \o <<ctrl.cost_vd_reg_, ctrl.cost_basis_reg_>>
    /\ p.eqs \o p.ineqs \o p.costs = [k \in 1..Len(p.objs) |-> k]
    /\ Kind(ctrl.eq_dynamics_) = "dynamics eq"
    /\ \A i \in 1..Len(ctrl.eq_contacts_) : Kind(ctrl.eq_contacts_[i]) = "contact eq"
    /\ Kind(ctrl.ineq_contact_wrench_) = "contact force basis ineq"
    /\ Kind(ctrl.ineq_torque_limit_) = "torque limit ineq"
    /\ Kind(ctrl.cost_comdd_) = "com cost"
    /\ \A i \in 1..Len(ctrl.cost_body_accelerations_) :
         Kind(ctrl.cost_body_accelerations_[i]) = "cost"
    /\ Kind(ctrl.cost_vd_reg_) = "vd reg cost"
    /\ Kind(ctrl.cost_basis_reg_) = "basis reg cost"

\* C7: a cycle rebuilt the problem for the most contacts and tracked bodies.
C7_Witness ==
  /\ trace.ran /\ trace.resized
  /\ Len(ctrl.eq_contacts_) = MaxContacts
  /\ Len(ctrl.cost_body_accelerations_) = MaxBodyMotions

\* A block write lies inside its buffer.
InsideBuffer(w) ==
  /\ w.row >= 0 /\ w.row + w.nrows <= ctrl[w.buf].rows
  /\ w.col >= 0 /\ w.col + w.ncols <= ctrl[w.buf].cols

\* C8: once built, the decision vector is the vd block, at 0 with num_vd
\* entries, followed by the basis block, at num_vd with num_basis entries,
\* num_vd + num_basis variables in all; and every block the formulator writes
\* into torque_linear_ and dynamics_linear_ is one of these two column ranges.
C8_VariableLayout ==
  Built =>
    /\ ctrl.prog_.vars =
         <<[name |-> "vd", index |-> 0, size |-> ctrl.num_vd_],
           [name |-> "basis", index |-> ctrl.num_vd_, size |-> ctrl.num_basis_]>>
    /\ ctrl.prog_.num_vars = ctrl.num_vd_ + ctrl.num_basis_
    /\ ctrl.num_variable_ = ctrl.prog_.num_vars
    /\ \A w \in trace.writes :
         w.buf \in {"torque_linear_", "dynamics_linear_"} =>
           /\ InsideBuffer(w)
           /\ \/ w.col = 0 /\ w.ncols = ctrl.num_vd_
              \/ w.col = ctrl.num_vd_ /\ w.ncols = ctrl.num_basis_

\* C8: the formulator wrote both blocks of a problem with basis coefficients.
C8_Witness ==
  /\ trace.ran /\ ctrl.num_basis_ > 0
  /\ \E w \in trace.writes : w.buf = "torque_linear_" /\ w.col = ctrl.num_vd_

\* The handles point into the program.
HandlesValid ==
  \A id \in {ctrl.eq_dynamics_, ctrl.ineq_contact_wrench_, ctrl.ineq_torque_limit_,
             ctrl.cost_comdd_, ctrl.cost_vd_reg_, ctrl.cost_basis_reg_}
            \cup {ctrl.eq_contacts_[i] : i \in 1..Len(ctrl.eq_contacts_)}
            \cup {ctrl.cost_body_accelerations_[i] :
                    i \in 1..Len(ctrl.cost_body_accelerations_)} :
    id \in 1..Len(ctrl.prog_.objs)

\* C9: when the formulator has run, the stored counts are those of its input,
\* there is one contact-equality handle per contact and one body-cost handle
\* and Jacobian slot per tracked body of the input, the stacking loop read only
\* contacts the input has, the final offsets are 3 x num_point_force_ and
\* num_basis_, and every handle and block write is in range.
C9_TopologyMatchesInput ==
  trace.ran =>
    LET contacts == trace.shape[1]
        n == Len(contacts)
    IN /\ ctrl.num_contact_body_ = n
       /\ ctrl.num_point_force_ = SumSeq([i \in 1..n |-> contacts[i][1]], n)
       /\ ctrl.num_basis_ = SumSeq([i \in 1..n |-> contacts[i][2]], n)
       /\ ctrl.num_body_acceleration_ = trace.shape[2]
       /\ trace.contacts_stacked = n /\ trace.contacts_given = n
       /\ trace.eq_handles = n
       /\ trace.bodies_given = trace.shape[2]
       /\ trace.body_handles = trace.shape[2]
       /\ trace.body_slots = trace.shape[2]
       /\ trace.rowIdx = 3 * ctrl.num_point_force_
       /\ trace.colIdx = ctrl.num_basis_
       /\ trace.rowIdx_eq = 3 * ctrl.num_point_force_
       /\ HandlesValid
       /\ \A w \in trace.writes : InsideBuffer(w)

\* C9: the formulator ran on the largest input with the problem of an earlier
\* cycle.
C9_Witness ==
  /\ trace.ran /\ ~trace.resized
  /\ trace.contacts_given = MaxContacts
  /\ trace.rowIdx = 3 * MaxContacts * MaxPoints

\* C10, as stated: when the formulator has run, contact equality i is declared
\* with the rows the formulator writes into it, 3 per contact point of
\* contact i of the input.
C10_DeclaredRowsMatchInput ==
  trace.ran =>
    \A i \in 1..Len(trace.contact_rows) :
      /\ i <= Len(ctrl.eq_contacts_)
      /\ ctrl.prog_.objs[ctrl.eq_contacts_[i]].rows = trace.contact_rows[i]

\* C11: once a topology has been built, whether the last cycle rebuilt it or
\* reused it, the inequality on the basis coefficients is an object of the
\* program that still holds what ResizeQP declared: the identity over the
\* num_basis coefficients of the basis block, bounded below by 0 and above by
\* the fixed upper bound; the formulator has stored nothing in it.
C11_BasisBoundsConstant ==
  Built =>
    /\ ctrl.ineq_contact_wrench_ \in 1..Len(ctrl.prog_.objs)
    /\ \E k \in 1..Len(ctrl.prog_.ineqs) :
         ctrl.prog_.ineqs[k] = ctrl.ineq_contact_wrench_
    /\ LET bound == ctrl.prog_.objs[ctrl.ineq_contact_wrench_]
       IN /\ bound.A = "identity"
          /\ bound.rows = ctrl.num_basis_
          /\ bound.cols = ctrl.num_basis_
          /\ bound.A_rows = ctrl.num_basis_
          /\ bound.vars = <<"basis">>
          /\ GetVariable(ctrl.prog_, "basis").size = ctrl.num_basis_
          /\ bound.lb = <<"const", 0>>
          /\ bound.ub = <<"const", BasisUpperBound>>

\* A successful cycle that reused the topology of the cycle before it, with
\* every contact body in contact at every point.
C11_Witness ==
  /\ outcome = "success"
  /\ trace.ran /\ ~trace.resized
  /\ ctrl.num_basis_ = MaxContacts * MaxPoints * BasisPerContactPoint

\* The output o holds what one cycle on controller c produces for an input
\* whose contacts are on the bodies contact_bodies with the sizes shape
\* (points, basis dimension) and whose tracked bodies are tracked: one resolved
\* contact per contact and one body acceleration per tracked body, in order
\* and with the body of each; slices that start at 0, follow one another
\* without gap or overlap and end where the basis block and the point-force
\* vector end; one cost value per cost of the program.
OutputIsOf(o, c, contact_bodies, shape, tracked) ==
  LET rc == o.resolved_contacts
      n == Len(rc)
  IN /\ n = Len(contact_bodies)
     /\ \A i \in 1..n :
          /\ rc[i].body = contact_bodies[i]
          /\ rc[i].num_point_forces = shape[i][1]
          /\ rc[i].num_basis = shape[i][2]
          /\ rc[i].basis_index =
               IF i = 1 THEN 0 ELSE rc[i - 1].basis_index + rc[i - 1].num_basis
          /\ rc[i].point_force_index =
               IF i = 1 THEN 0
               ELSE rc[i - 1].point_force_index + 3 * rc[i - 1].num_point_forces
     /\ c.num_basis_ = IF n = 0 THEN 0 ELSE rc[n].basis_index + rc[n].num_basis
     /\ 3 * c.num_point_force_ =
          IF n = 0 THEN 0 ELSE rc[n].point_force_index + 3 * rc[n].num_point_forces
     /\ c.basis_to_force_matrix_.rows = 3 * c.num_point_force_
     /\ GetVariable(c.prog_, "basis").size = c.num_basis_
     /\ o.body_accelerations = tracked
     /\ Len(o.costs) = Len(c.prog_.costs)

\* C12: after a successful cycle the output is that of the input of this
\* cycle and of nothing else; and from every reachable state, whatever the
\* output holds from the cycles before, a cycle that succeeds on any valid
\* input leaves the output of that input and of nothing else.
C12_OutputFreshEachCycle ==
  /\ outcome = "success" =>
       OutputIsOf(output, ctrl, trace.contact_bodies, trace.shape[1],
                  trace.tracked_bodies)
  /\ \A input \in ValidInputs :
       LET r == Control(ctrl, output, input, CycleEnv(TRUE, TRUE, 0, TRUE, TRUE),
                        asserts_armed)
       IN r.outcome = "success" =>
            OutputIsOf(r.output, r.ctrl,
                       [i \in 1..Len(input.contact_info) |-> input.contact_info[i].body],
                       Shape(input)[1], input.desired_body_accelerations)

\* A successful cycle has left an output with every contact and every tracked
\* body, and a valid input with fewer contacts and fewer tracked bodies, on
\* which a cycle would succeed, can come next.
C12_Witness ==
  /\ outcome = "success"
  /\ Len(output.resolved_contacts) = MaxContacts
  /\ Len(output.body_accelerations) = MaxBodyMotions
  /\ \E input \in ValidInputs :
       /\ Len(input.contact_info) < MaxContacts
       /\ Len(input.desired_body_accelerations) < MaxBodyMotions
       /\ Control(ctrl, output, input, CycleEnv(TRUE, TRUE, 0, TRUE, TRUE),
                  asserts_armed).outcome = "success"

====
